---- MODULE Spec2Model ----
(***************************************************************************)
(* State-machine model of src/printer_controller.py (PrinterController).   *)
(*                                                                         *)
(* Threads: one control thread (the HTTP layer's caller), the print        *)
(* executor threads started by start_print, the temperature monitor        *)
(* threads started by connect, and the cleanup threads started by          *)
(* stop_print.  Every thread has a call stack of frames (top = Head); a    *)
(* step executes the statement(s) the top frame is at.  The controller     *)
(* holds no lock, so the steps of different threads interleave freely.     *)
(***************************************************************************)
EXTENDS Integers, Sequences, FiniteSets, TLC

\* ------------------------------------------------------------- bounds
MaxExec == 2        \* executor threads that can be alive at once
MaxMon == 2         \* monitor threads that can be alive at once
MaxCleanup == 1     \* cleanup threads that can be alive at once
MaxLines == 2       \* longest job that is loaded

\* --------------------------------------------------- program constants
max_reconnect_attempts == 5

VARIABLES
    serial,         \* self.serial: "none" | "open" | "closed"
    port,           \* self.port: "none" or a device path
    connected, printing, paused, stop_flag,
    progress, current_line, total_lines, gcode_lines,
    temperature, last_error,
    stk,            \* thread -> call stack (sequence of frames, top first)
    ret,            \* thread -> value returned by the call that last returned
    cleanup,        \* cleanup position -> number of cleanup threads there
    touched,        \* history: the caller invoked an operation since the last start
    stopped_job,    \* history: a running job on a connected controller was stopped
    budget,         \* what the environment may still do in this behaviour:
                    \* operation of the caller (or "fault") -> how many more
    shut,           \* history: shutdown sequences attempted for that job (0, 1, 2 = more)
    halted,         \* history: stop_print has been called since construction
    faulted         \* history: the device has raised a fault since construction

vars == <<serial, port, connected, printing, paused, stop_flag, progress,
          current_line, total_lines, gcode_lines, temperature, last_error,
          stk, ret, cleanup, touched, stopped_job, shut, halted, faulted, budget>>

\* ------------------------------------------------------------ threads
Ctl == <<"ctl", 1>>
Exec == {<<"exec", i>> : i \in 1..MaxExec}
Mon == {<<"mon", i>> : i \in 1..MaxMon}
Threads == {Ctl} \cup Exec \cup Mon

\* -------------------------------------------------------------- texts
DevicePort == "/dev/ttyUSB0"

ErrNoPrinter == "No printer found. Check USB connection."
ErrNotResponding == "Printer not responding"
ErrNotConnected == "Not connected to printer"
ErrNoGcode == "No G-code loaded"
ErrAlready == "Already printing"
ErrTooMany == "Too many connection errors, stopping print"
ErrUSB == "USB Error: [Errno 5] Input/output error"
ErrNone == "'NoneType' object has no attribute"
ErrNotOpen == "Attempting to use a port that is not open"
ErrNoFile == "[Errno 2] No such file or directory"

\* str(e) of the exceptions of the serial device: a port that cannot be
\* opened names the port; a failed write does not.
ErrOpen == "could not open port /dev/ttyUSB0"
ErrWrite == "write failed: [Errno 5] Input/output error"

\* 'USB' in self.last_error or 'Error' in self.last_error  (case-sensitive)
IsConnClass(s) ==
    s \in {ErrUSB, ErrNoPrinter, ErrOpen}

\* ------------------------------------------------------ response lines
NoField == <<>>
RespLines == {
    [text |-> "ok", T |-> NoField, B |-> NoField],
    [text |-> "ok T:205.00 /210.00 B:59.80 /60.00", T |-> <<20500, 21000>>, B |-> <<5980, 6000>>],
    [text |-> "Error:Printer halted", T |-> NoField, B |-> NoField],
    [text |-> " T:205.00 /210.00 B:59.80 /60.00", T |-> <<20500, 21000>>, B |-> <<5980, 6000>>],
    [text |-> "echo:busy: processing", T |-> NoField, B |-> NoField] }

\* What the firmware answers: M105 is acknowledged with the temperatures.
ResponsesTo(c) ==
    {l \in RespLines : (l.T # NoField) <=> (c = "M105")}

\* 'ok' in line.lower()
HasOk(l) == l.text \in {"ok", "ok T:205.00 /210.00 B:59.80 /60.00"}
\* 'error' in line.lower()
HasError(l) == l.text = "Error:Printer halted"
\* line.startswith('T:') or ' T:' in line
HasTempMark(l) == l.T # NoField

\* A field is the text the patterns of the parser capture: <<>> when the
\* line has no such field, <<value>>, or <<value, target>>; values are in
\* hundredths of a degree.  The class [\d.]+ also captures text that is no
\* number ("1.2.3"): a negative entry stands for such text.
IsNumber(x) == x >= 0

\* one field with a missing target read as a target of zero
parse_field_zero_target(f, cur, tar) ==
    IF Len(f) = 2
    THEN IF ~IsNumber(f[1]) THEN [cur |-> cur, tar |-> tar, exc |-> TRUE]
         ELSE IF ~IsNumber(f[2]) THEN [cur |-> f[1], tar |-> tar, exc |-> TRUE]
         ELSE [cur |-> f[1], tar |-> f[2], exc |-> FALSE]
    ELSE IF Len(f) = 1
    THEN IF ~IsNumber(f[1]) THEN [cur |-> cur, tar |-> tar, exc |-> TRUE]
         ELSE [cur |-> f[1], tar |-> 0, exc |-> FALSE]
    ELSE [cur |-> cur, tar |-> tar, exc |-> FALSE]

\* One field of the parser (lines 174-181, 184-191): the value and, with a
\* /target suffix, the target, assigned in this order; float() of text that
\* is no number raises (exc) and leaves what was not yet assigned.
parse_field(f, cur, tar) ==
    IF Len(f) = 2
    THEN IF ~IsNumber(f[1]) THEN [cur |-> cur, tar |-> tar, exc |-> TRUE]
         ELSE IF ~IsNumber(f[2]) THEN [cur |-> f[1], tar |-> tar, exc |-> TRUE]
         ELSE [cur |-> f[1], tar |-> f[2], exc |-> FALSE]
    ELSE IF Len(f) = 1
    THEN IF ~IsNumber(f[1]) THEN [cur |-> cur, tar |-> tar, exc |-> TRUE]
         ELSE [cur |-> f[1], tar |-> tar, exc |-> FALSE]
    ELSE [cur |-> cur, tar |-> tar, exc |-> FALSE]

\* Lines 169-193: the hotend field, then the bed field; an exception ends
\* the parse and is swallowed by the handler.
parse_temperature(l, t) ==
    LET h == parse_field(l.T, t.hotend, t.hotend_target)
        b == IF h.exc THEN [cur |-> t.bed, tar |-> t.bed_target, exc |-> TRUE]
             ELSE parse_field(l.B, t.bed, t.bed_target)
    IN [bed |-> b.cur, bed_target |-> b.tar, hotend |-> h.cur, hotend_target |-> h.tar]

\* The lines the parser is exercised on: every combination of fields over
\* these captured texts.
Numerals == {-1, 20500, 21000}
Fields == {<<>>} \cup {<<v>> : v \in Numerals} \cup {<<v, w>> : v, w \in Numerals}
TempLines == [T : Fields, B : Fields]

\* Handshake responses read after M115.
HandshakeResps == {"", "echo:start", "FIRMWARE_NAME:Marlin 2.0", "ok"}
\* 'Marlin' in response or 'ok' in response.lower()
Recognised(r) == r \in {"FIRMWARE_NAME:Marlin 2.0", "ok"}

\* ---------------------------------------------------------------- jobs
\* The program the jobs are cut from.
Program == <<"G28", "; comment only", "", "G1 X10 ; move">>
\* line.split(';')[0].strip()
StripComment(l) ==
    CASE l = "G28" -> "G28"
      [] l = "; comment only" -> ""
      [] l = "" -> ""
      [] l = "G1 X10 ; move" -> "G1 X10"
      [] OTHER -> l

Jobs == {SubSeq(Program, 1, n) : n \in 0..MaxLines}

\* the commands of a job: its lines stripped, the empty ones left out, in order
RECURSIVE Commands(_)
Commands(j) ==
    IF j = <<>> THEN <<>>
    ELSE IF StripComment(Head(j)) = "" THEN Commands(Tail(j))
    ELSE <<StripComment(Head(j))>> \o Commands(Tail(j))

\* int((current_line / total_lines) * 100); the float product truncates to
\* the exact floor for every total_lines below 50.
Percent(cl, tl) == (cl * 100) \div tl

\* -------------------------------------------------------------- frames
SendFrame(c, w) == [p |-> "send", at |-> "check", cmd |-> c, wait |-> w, rc |-> 0, wr |-> 0]
DiscFrame == [p |-> "disconnect", at |-> "stop"]
ConnFrame(a) == [p |-> "connect", at |-> "begin", arg |-> a]
MonFrame == [p |-> "monitor", at |-> "loop"]
\* ra: reconnect_attempts; resp: the response of the last send; why: how the loop ended;
\* out: the commands handed to send_command; clean: none of these sends failed
LoopFrame == [p |-> "loop", at |-> "top", ra |-> 0, resp |-> "none", why |-> "none",
              out |-> <<>>, clean |-> TRUE]
LoadFrame == [p |-> "load", at |-> "total"]
\* i: the next command of the macro; sent: the commands written so far;
\* failed: a send of the macro returned failure
MacroFrame(k) == [p |-> k, at |-> "macro", i |-> 1, sent |-> <<>>, failed |-> FALSE]

NoRet == [ok |-> FALSE, msg |-> "none"]
Result(ok, msg) == [ok |-> ok, msg |-> msg]

Alive(t) == stk[t] # <<>>
Top(t) == Head(stk[t])
At(t, p, a) == Alive(t) /\ Top(t).p = p /\ Top(t).at = a

\* the stack of t with its top frame replaced by f
SetTop(t, f) == [stk EXCEPT ![t] = <<f>> \o Tail(@)]
\* the stack of t with its top frame replaced by f and the frames fs called
Call(t, f, fs) == [stk EXCEPT ![t] = fs \o <<f>> \o Tail(@)]
Popped(t) == [stk EXCEPT ![t] = Tail(@)]
\* the value a returning call leaves: the monitor discards it
Returned(t, r) ==
    [ret EXCEPT ![t] = IF Len(stk[t]) > 1 /\ stk[t][2].p = "monitor" THEN NoRet ELSE r]

\* reconnect(): disconnect(), sleep, connect(self.port)
ReconnectFrames == <<DiscFrame, ConnFrame("self.port")>>

\* ---------------------------------------------------------- scenarios
Ops == {"connect", "disconnect", "send", "load", "start", "pause", "resume", "stop",
        "fault", "poll"}
Scenario(f) == [o \in Ops |-> IF o \in DOMAIN f THEN f[o] ELSE 0]
Session == Scenario([connect |-> 1, load |-> 1, start |-> 1, pause |-> 1, resume |-> 1,
                     stop |-> 1, poll |-> 1])
Restart == Scenario([connect |-> 1, load |-> 1, start |-> 2, stop |-> 2])
Reload == Scenario([connect |-> 1, load |-> 2, start |-> 1, poll |-> 1])
Faulty == Scenario([connect |-> 2, load |-> 1, start |-> 1, fault |-> 2])
Sending == Scenario([connect |-> 1, send |-> 1, fault |-> 2, poll |-> 1])
Link == Scenario([connect |-> 2, disconnect |-> 2, send |-> 1, poll |-> 1])
Shutdown == Scenario([connect |-> 1, load |-> 1, start |-> 1, stop |-> 2, disconnect |-> 1])
Pausing == Scenario([connect |-> 1, load |-> 1, start |-> 1, pause |-> 1, resume |-> 1,
                     fault |-> 1])
Scenarios == {Session, Restart, Reload, Faulty, Sending, Link, Shutdown, Pausing}

ZeroTemp == [bed |-> 0, bed_target |-> 0, hotend |-> 0, hotend_target |-> 0]
NoCleanup == [c \in {"start", "m140", "m84"} |-> 0]
CleanupCount == cleanup["start"] + cleanup["m140"] + cleanup["m84"]

Init ==
    /\ serial = "none" /\ port = "none"
    /\ connected = FALSE /\ printing = FALSE /\ paused = FALSE /\ stop_flag = FALSE
    /\ progress = 0 /\ current_line = 0 /\ total_lines = 0 /\ gcode_lines = <<>>
    /\ temperature = ZeroTemp /\ last_error = ""
    /\ stk = [t \in Threads |-> <<>>]
    /\ ret = [t \in Threads |-> NoRet]
    /\ cleanup = NoCleanup
    /\ touched = FALSE /\ stopped_job = FALSE /\ shut = 0 /\ halted = FALSE
    /\ faulted = FALSE
    /\ budget \in Scenarios

link == <<serial, port, connected>>
flags == <<printing, paused, stop_flag>>
job == <<progress, current_line, total_lines, gcode_lines>>
hist == <<touched, stopped_job, shut, halted>>
env == <<budget, faulted>>
Spent(op) == budget[op] > 0 /\ budget' = [budget EXCEPT ![op] = @ - 1]
Spend(op) == Spent(op) /\ UNCHANGED faulted
\* the device raises: one more of the faults of this behaviour
Fault == Spent("fault") /\ faulted' = TRUE
\* the caller, idle, invokes an operation
Invoke(op) == stk[Ctl] = <<>> /\ Spend(op)

\* --------------------------------------------------------- stop_print
\* Lines 334-353: the three flags, then the cleanup thread is started.
stop_print ==
    /\ CleanupCount < MaxCleanup
    /\ stop_flag' = TRUE /\ paused' = FALSE /\ printing' = FALSE
    /\ cleanup' = [cleanup EXCEPT !["start"] = @ + 1]
    /\ halted' = TRUE
    /\ IF printing /\ connected
       THEN stopped_job' = TRUE /\ shut' = 0
       ELSE UNCHANGED <<stopped_job, shut>>

\* cleanup(): "if self.connected and self.serial", then the first write
cleanup_start ==
    /\ cleanup["start"] > 0
    /\ IF connected /\ serial # "none"
       THEN /\ shut' = IF shut < 2 THEN shut + 1 ELSE shut
            /\ cleanup' = IF serial = "open"
                          THEN [cleanup EXCEPT !["start"] = @ - 1, !["m140"] = @ + 1]
                          ELSE [cleanup EXCEPT !["start"] = @ - 1]
       ELSE /\ cleanup' = [cleanup EXCEPT !["start"] = @ - 1]
            /\ shut' = shut
    /\ UNCHANGED <<link, flags, job, temperature, last_error, stk, ret, touched, stopped_job,
                   halted>>
    /\ UNCHANGED env

\* the writes of M140 S0 and M84; an exception ends the thread silently
cleanup_write(c, next) ==
    /\ cleanup[c] > 0
    /\ cleanup' = IF serial = "open" /\ next # "end"
                  THEN [cleanup EXCEPT ![c] = @ - 1, ![next] = @ + 1]
                  ELSE [cleanup EXCEPT ![c] = @ - 1]
    /\ UNCHANGED <<link, flags, job, temperature, last_error, stk, ret, hist>>
    /\ UNCHANGED env

\* --------------------------------------------------------- disconnect
disconnect_stop(t) ==
    /\ At(t, "disconnect", "stop")
    /\ stop_print
    /\ stk' = SetTop(t, [Top(t) EXCEPT !.at = "close"])
    /\ UNCHANGED <<link, job, temperature, last_error, ret, touched>>
    /\ UNCHANGED env

disconnect_close(t) ==
    /\ At(t, "disconnect", "close")
    /\ serial' = IF serial = "open" THEN "closed" ELSE serial
    /\ stk' = SetTop(t, [Top(t) EXCEPT !.at = "clear"])
    /\ UNCHANGED <<port, connected, flags, job, temperature, last_error, ret, cleanup, hist>>
    /\ UNCHANGED env

\* disconnect without line 112: the handle is kept
disconnect_clear_keeps_handle(t) ==
    /\ At(t, "disconnect", "clear")
    /\ connected' = FALSE
    /\ stk' = Popped(t) /\ ret' = Returned(t, NoRet)
    /\ UNCHANGED <<serial, port, flags, job, temperature, last_error, cleanup, hist>>
    /\ UNCHANGED env

disconnect_clear(t) ==
    /\ At(t, "disconnect", "clear")
    /\ connected' = FALSE /\ serial' = "none"
    /\ stk' = Popped(t) /\ ret' = Returned(t, NoRet)
    /\ UNCHANGED <<port, flags, job, temperature, last_error, cleanup, hist>>
    /\ UNCHANGED env

\* ------------------------------------------------------------ connect
\* _start_temp_monitoring: a new monitor thread in a free slot
FreeMon == {m \in Mon : ~Alive(m)}
FreeExec == {e \in Exec : ~Alive(e)}

\* Lines 47-59: the port, and the existing connection closed
connect_begin(t) ==
    /\ At(t, "connect", "begin")
    /\ LET a == IF Top(t).arg = "self.port" THEN port ELSE Top(t).arg
       IN \E found \in (IF a = "none" THEN {"none", DevicePort} ELSE {a}) :
            IF found = "none"
            THEN /\ last_error' = ErrNoPrinter
                 /\ stk' = Popped(t) /\ ret' = Returned(t, Result(FALSE, ""))
                 /\ UNCHANGED <<serial, port>>
            ELSE /\ port' = found
                 /\ serial' = IF serial = "open" THEN "closed" ELSE serial
                 /\ stk' = SetTop(t, [Top(t) EXCEPT !.at = "open"])
                 /\ UNCHANGED <<last_error, ret>>
    /\ UNCHANGED <<connected, flags, job, temperature, cleanup, hist>>
    /\ UNCHANGED env

\* Lines 61-101: the port opened, the reset, the M115 handshake
connect_open(t) ==
    /\ At(t, "connect", "open")
    /\ \/ /\ Fault                               \* serial.Serial(...) raises
          /\ last_error' = ErrOpen /\ connected' = FALSE
          /\ stk' = Popped(t) /\ ret' = Returned(t, Result(FALSE, ""))
          /\ UNCHANGED serial
       \/ /\ Fault                               \* the reset or the write raises
          /\ serial' = "open"
          /\ last_error' = ErrWrite /\ connected' = FALSE
          /\ stk' = Popped(t) /\ ret' = Returned(t, Result(FALSE, ""))
       \/ \E r \in HandshakeResps :
            /\ UNCHANGED env
            /\ serial' = "open"
            /\ IF Recognised(r)
               THEN /\ FreeMon # {}
                    /\ connected' = TRUE /\ last_error' = ""
                    /\ LET m == CHOOSE x \in FreeMon : TRUE
                       IN stk' = [Popped(t) EXCEPT ![m] = <<MonFrame>>]
                    /\ ret' = Returned(t, Result(TRUE, ""))
               ELSE /\ last_error' = ErrNotResponding
                    /\ stk' = Popped(t) /\ ret' = Returned(t, Result(FALSE, ""))
                    /\ UNCHANGED connected
    /\ UNCHANGED <<port, flags, job, temperature, cleanup, hist>>

\* ------------------------------------------------------- send_command
\* Lines 122-128
send_command_check(t) ==
    /\ At(t, "send", "check")
    /\ IF ~connected \/ serial = "none"
       THEN stk' = Popped(t) /\ ret' = Returned(t, Result(FALSE, "Not connected"))
       ELSE IF Top(t).cmd = ""
       THEN stk' = Popped(t) /\ ret' = Returned(t, Result(TRUE, ""))
       ELSE stk' = SetTop(t, [Top(t) EXCEPT !.at = "write"]) /\ ret' = ret
    /\ UNCHANGED <<link, flags, job, temperature, last_error, cleanup, hist>>
    /\ UNCHANGED env

\* Lines 130-133; an exception here reaches the outer handler (163-165)
send_command_write(t) ==
    /\ At(t, "send", "write")
    /\ \/ /\ serial # "open"
          /\ last_error' = (IF serial = "none" THEN ErrNone ELSE ErrNotOpen)
          /\ stk' = Popped(t) /\ ret' = Returned(t, Result(FALSE, "exception"))
          /\ UNCHANGED env
       \/ /\ serial = "open"
          /\ UNCHANGED env
          /\ IF Top(t).wait
             THEN stk' = SetTop(t, [Top(t) EXCEPT !.at = "await", !.wr = @ + 1]) /\ ret' = ret
             ELSE stk' = Popped(t) /\ ret' = Returned(t, Result(TRUE, ""))
          /\ UNCHANGED last_error
       \/ /\ serial = "open"
          /\ Fault
          /\ last_error' = ErrWrite
          /\ stk' = Popped(t) /\ ret' = Returned(t, Result(FALSE, "exception"))
    /\ UNCHANGED <<link, flags, job, temperature, cleanup, hist>>

\* Lines 138-161: one turn of the acknowledgment wait
send_command_await(t) ==
    /\ At(t, "send", "await")
    /\ \/ /\ serial # "open"        \* in_waiting of a missing or closed port
          /\ last_error' = (IF serial = "none" THEN ErrNone ELSE ErrNotOpen)
          /\ stk' = Popped(t) /\ ret' = Returned(t, Result(FALSE, "exception"))
          /\ UNCHANGED <<link, flags, temperature, cleanup, hist, env>>
       \/ /\ serial = "open"
          /\ \E l \in ResponsesTo(Top(t).cmd) :
               /\ temperature' = IF HasTempMark(l) THEN parse_temperature(l, temperature)
                                 ELSE temperature
               /\ IF HasOk(l)
                  THEN stk' = Popped(t) /\ ret' = Returned(t, Result(TRUE, "response"))
                  ELSE IF HasError(l)
                  THEN stk' = Popped(t) /\ ret' = Returned(t, Result(FALSE, "response"))
                  ELSE UNCHANGED <<stk, ret>>
          /\ UNCHANGED <<link, flags, last_error, cleanup, hist, env>>
       \/ /\ serial = "open"        \* the timeout elapses
          /\ stk' = Popped(t) /\ ret' = Returned(t, Result(FALSE, "Timeout"))
          /\ UNCHANGED <<link, flags, temperature, last_error, cleanup, hist, env>>
       \/ /\ serial = "open"        \* OSError: reconnect() is called
          /\ Fault
          /\ last_error' = ErrUSB
          /\ stk' = Call(t, [Top(t) EXCEPT !.at = "recovered", !.rc = @ + 1], ReconnectFrames)
          /\ UNCHANGED <<link, flags, temperature, ret, cleanup, hist>>
    /\ UNCHANGED job

\* Lines 157-159: reconnect() has returned
send_command_recovered(t) ==
    /\ At(t, "send", "recovered")
    /\ IF ret[t].ok
       THEN /\ stk' = SetTop(t, [Top(t) EXCEPT !.at = "check"])
            /\ ret' = [ret EXCEPT ![t] = NoRet]
       ELSE stk' = Popped(t) /\ ret' = Returned(t, Result(FALSE, "exception"))
    /\ UNCHANGED <<link, flags, job, temperature, last_error, cleanup, hist>>
    /\ UNCHANGED env

\* ------------------------------------------------- temperature monitor
\* Lines 197-204: "while self.connected: if not self.printing: send M105"
monitor_loop(m) ==
    /\ At(m, "monitor", "loop")
    /\ IF ~connected
       THEN stk' = [stk EXCEPT ![m] = <<>>] /\ UNCHANGED env
       ELSE /\ ~printing
            /\ Spend("poll")
            /\ stk' = Call(m, Top(m), <<SendFrame("M105", TRUE)>>)
    /\ UNCHANGED <<link, flags, job, temperature, last_error, ret, cleanup, hist>>

\* -------------------------------------------------------- _print_loop
\* Lines 263-281: the loop condition, the pause wait, the line fetched and
\* stripped, the send started.  A paused executor sleeps and re-checks.
print_loop_top(e) ==
    /\ At(e, "loop", "top")
    /\ IF ~(current_line < total_lines /\ ~stop_flag)
       THEN stk' = SetTop(e, [Top(e) EXCEPT !.at = "exit",
                     !.why = IF current_line >= total_lines THEN "exhausted" ELSE "stop"])
       ELSE /\ ~paused
            /\ IF current_line >= Len(gcode_lines)
               THEN stk' = [stk EXCEPT ![e] = <<>>]          \* IndexError ends the thread
               ELSE LET command == StripComment(gcode_lines[current_line + 1])
                    IN IF command # ""
                       THEN stk' = Call(e, [Top(e) EXCEPT !.at = "sent",
                                                           !.out = Append(@, command)],
                                        <<SendFrame(command, TRUE)>>)
                       ELSE stk' = SetTop(e, [Top(e) EXCEPT !.at = "advance"])
    /\ UNCHANGED <<link, flags, job, temperature, last_error, ret, cleanup, hist>>
    /\ UNCHANGED env

\* Lines 283-296: the result of the send
print_loop_sent(e) ==
    /\ At(e, "loop", "sent")
    /\ ret' = [ret EXCEPT ![e] = NoRet]
    /\ IF ret[e].ok
       THEN /\ stk' = SetTop(e, [Top(e) EXCEPT !.at = "advance", !.ra = 0,
                                                    !.resp = ret[e].msg])
            /\ UNCHANGED last_error
       ELSE IF IsConnClass(last_error)
       THEN IF Top(e).ra + 1 >= max_reconnect_attempts
            THEN /\ last_error' = ErrTooMany
                 /\ stk' = SetTop(e, [Top(e) EXCEPT !.at = "exit", !.ra = @ + 1,
                                                    !.resp = ret[e].msg, !.why = "abort",
                                                    !.clean = FALSE])
            ELSE /\ stk' = Call(e, [Top(e) EXCEPT !.at = "reconnected", !.ra = @ + 1,
                                                  !.resp = ret[e].msg, !.clean = FALSE],
                                ReconnectFrames)
                 /\ UNCHANGED last_error
       ELSE /\ stk' = SetTop(e, [Top(e) EXCEPT !.at = "advance", !.resp = ret[e].msg,
                                                    !.clean = FALSE])
            /\ UNCHANGED last_error
    /\ UNCHANGED <<link, flags, job, temperature, cleanup, hist>>
    /\ UNCHANGED env

\* Lines 290-291: "if self.reconnect(): continue"
print_loop_reconnected(e) ==
    /\ At(e, "loop", "reconnected")
    /\ ret' = [ret EXCEPT ![e] = NoRet]
    /\ stk' = SetTop(e, [Top(e) EXCEPT !.at = IF ret[e].ok THEN "top" ELSE "advance"])
    /\ UNCHANGED <<link, flags, job, temperature, last_error, cleanup, hist>>
    /\ UNCHANGED env

\* Line 298
print_loop_advance(e) ==
    /\ At(e, "loop", "advance")
    /\ current_line' = current_line + 1
    /\ stk' = SetTop(e, [Top(e) EXCEPT !.at = "progress"])
    /\ UNCHANGED <<link, flags, progress, total_lines, gcode_lines, temperature,
                   last_error, ret, cleanup, hist>>
    /\ UNCHANGED env

\* Line 299; a division by zero ends the thread
print_loop_progress(e) ==
    /\ At(e, "loop", "progress")
    /\ IF total_lines = 0
       THEN stk' = [stk EXCEPT ![e] = <<>>] /\ UNCHANGED progress
       ELSE /\ progress' = Percent(current_line, total_lines)
            /\ stk' = SetTop(e, [Top(e) EXCEPT !.at = "top"])
    /\ UNCHANGED <<link, flags, current_line, total_lines, gcode_lines, temperature,
                   last_error, ret, cleanup, hist>>
    /\ UNCHANGED env

\* Line 309
print_loop_exit(e) ==
    /\ At(e, "loop", "exit")
    /\ printing' = FALSE
    /\ stk' = SetTop(e, [Top(e) EXCEPT !.at = "exit2"])
    /\ UNCHANGED <<link, paused, stop_flag, job, temperature, last_error, ret,
                   cleanup, hist>>
    /\ UNCHANGED env

\* Lines 310-311
print_loop_exit2(e) ==
    /\ At(e, "loop", "exit2")
    /\ progress' = IF ~stop_flag THEN 100 ELSE progress
    /\ stk' = [stk EXCEPT ![e] = <<>>]
    /\ UNCHANGED <<link, flags, current_line, total_lines, gcode_lines, temperature,
                   last_error, ret, cleanup, hist>>
    /\ UNCHANGED env

\* ------------------------------------------- the caller's operations
CtlCmds == {"G28", ""}

ctl_connect(a) ==
    /\ touched' = TRUE
    /\ Invoke("connect")
    /\ stk' = [stk EXCEPT ![Ctl] = <<ConnFrame(a)>>]
    /\ UNCHANGED <<link, flags, job, temperature, last_error, ret, cleanup, stopped_job, shut, halted>>

ctl_disconnect ==
    /\ touched' = TRUE
    /\ Invoke("disconnect")
    /\ stk' = [stk EXCEPT ![Ctl] = <<DiscFrame>>]
    /\ UNCHANGED <<link, flags, job, temperature, last_error, ret, cleanup, stopped_job, shut, halted>>

ctl_send_command(c, w) ==
    /\ touched' = TRUE
    /\ Invoke("send")
    /\ stk' = [stk EXCEPT ![Ctl] = <<SendFrame(c, w)>>]
    /\ UNCHANGED <<link, flags, job, temperature, last_error, ret, cleanup, stopped_job, shut, halted>>

\* Lines 211-213: the file is read, or the open raises (218-220)
load_gcode(j) ==
    /\ touched' = TRUE
    /\ Invoke("load")
    /\ gcode_lines' = j
    /\ stk' = [stk EXCEPT ![Ctl] = <<LoadFrame>>]
    /\ UNCHANGED <<link, flags, progress, current_line, total_lines, temperature,
                   last_error, ret, cleanup, stopped_job, shut, halted>>

load_gcode_fail ==
    /\ touched' = TRUE
    /\ Invoke("load")
    /\ last_error' = ErrNoFile
    /\ ret' = [ret EXCEPT ![Ctl] = Result(FALSE, "")]
    /\ UNCHANGED <<link, flags, job, temperature, stk, cleanup, stopped_job, shut, halted>>

\* Line 225: content.split('\n') has at least one element
load_gcode_content(j) ==
    /\ touched' = TRUE
    /\ Invoke("load") /\ j # <<>>
    /\ gcode_lines' = j
    /\ stk' = [stk EXCEPT ![Ctl] = <<LoadFrame>>]
    /\ UNCHANGED <<link, flags, progress, current_line, total_lines, temperature,
                   last_error, ret, cleanup, stopped_job, shut, halted>>

\* Lines 214 / 226
load_total ==
    /\ At(Ctl, "load", "total")
    /\ total_lines' = Len(gcode_lines)
    /\ stk' = SetTop(Ctl, [Top(Ctl) EXCEPT !.at = "cur"])
    /\ UNCHANGED <<link, flags, progress, current_line, gcode_lines, temperature,
                   last_error, ret, cleanup, hist>>
    /\ UNCHANGED env

\* Lines 215 / 227
load_cur ==
    /\ At(Ctl, "load", "cur")
    /\ current_line' = 0
    /\ stk' = SetTop(Ctl, [Top(Ctl) EXCEPT !.at = "prog"])
    /\ UNCHANGED <<link, flags, progress, total_lines, gcode_lines, temperature,
                   last_error, ret, cleanup, hist>>
    /\ UNCHANGED env

\* Lines 216-217 / 228-229
load_prog ==
    /\ At(Ctl, "load", "prog")
    /\ progress' = 0
    /\ stk' = Popped(Ctl) /\ ret' = Returned(Ctl, Result(TRUE, ""))
    /\ UNCHANGED <<link, flags, current_line, total_lines, gcode_lines, temperature,
                   last_error, cleanup, hist>>
    /\ UNCHANGED env

\* start_print without the test of line 244
start_print_unguarded ==
    /\ Invoke("start")
    /\ IF ~connected \/ gcode_lines = <<>>
       THEN /\ last_error' = (IF ~connected THEN ErrNotConnected ELSE ErrNoGcode)
            /\ ret' = [ret EXCEPT ![Ctl] = Result(FALSE, "")]
            /\ UNCHANGED <<flags, current_line, stk, hist>>
       ELSE /\ FreeExec # {}
            /\ stop_flag' = FALSE /\ paused' = FALSE /\ printing' = TRUE
            /\ current_line' = 0
            /\ LET e == CHOOSE x \in FreeExec : TRUE
               IN stk' = [stk EXCEPT ![e] = <<LoopFrame>>]
            /\ ret' = [ret EXCEPT ![Ctl] = Result(TRUE, "")]
            /\ touched' = FALSE /\ stopped_job' = FALSE /\ shut' = 0
            /\ UNCHANGED last_error
    /\ UNCHANGED <<link, progress, total_lines, gcode_lines, temperature, cleanup, halted>>

\* Lines 236-256
start_print ==
    /\ Invoke("start")
    /\ IF ~connected \/ gcode_lines = <<>> \/ printing
       THEN /\ last_error' = (IF ~connected THEN ErrNotConnected
                              ELSE IF gcode_lines = <<>> THEN ErrNoGcode ELSE ErrAlready)
            /\ ret' = [ret EXCEPT ![Ctl] = Result(FALSE, "")]
            /\ UNCHANGED <<flags, current_line, stk, hist>>
       ELSE /\ FreeExec # {}
            /\ stop_flag' = FALSE /\ paused' = FALSE /\ printing' = TRUE
            /\ current_line' = 0
            /\ LET e == CHOOSE x \in FreeExec : TRUE
               IN stk' = [stk EXCEPT ![e] = <<LoopFrame>>]
            /\ ret' = [ret EXCEPT ![Ctl] = Result(TRUE, "")]
            /\ touched' = FALSE /\ stopped_job' = FALSE /\ shut' = 0
            /\ UNCHANGED last_error
    /\ UNCHANGED <<link, progress, total_lines, gcode_lines, temperature, cleanup, halted>>

\* the pause macro with the retract and the lift exchanged
PauseMacro_swapped == <<"G91", "G1 Z10 F300", "G1 E-5 F300", "G90">>

PauseMacro == <<"G91", "G1 E-5 F300", "G1 Z10 F300", "G90">>
ResumeMacro == <<"G91", "G1 Z-10 F300", "G1 E5 F300", "G90">>

\* Lines 315-316
pause_print ==
    /\ touched' = TRUE
    /\ Invoke("pause")
    /\ IF printing
       THEN /\ paused' = TRUE
            /\ stk' = [stk EXCEPT ![Ctl] = <<MacroFrame("pause")>>]
       ELSE UNCHANGED <<paused, stk>>
    /\ UNCHANGED <<link, printing, stop_flag, job, temperature, last_error, ret,
                   cleanup, stopped_job, shut, halted>>

\* resume_print testing self.printing only
resume_print_unguarded ==
    /\ touched' = TRUE
    /\ Invoke("resume")
    /\ IF printing
       THEN stk' = [stk EXCEPT ![Ctl] = <<MacroFrame("resume")>>]
       ELSE UNCHANGED stk
    /\ UNCHANGED <<link, flags, job, temperature, last_error, ret, cleanup, stopped_job, shut, halted>>

\* Line 325
resume_print ==
    /\ touched' = TRUE
    /\ Invoke("resume")
    /\ IF printing /\ paused
       THEN stk' = [stk EXCEPT ![Ctl] = <<MacroFrame("resume")>>]
       ELSE UNCHANGED stk
    /\ UNCHANGED <<link, flags, job, temperature, last_error, ret, cleanup, stopped_job, shut, halted>>

\* the macro frame with the outcome of the send that has just returned:
\* send_command returns success for a non-blank command once it is written
Noted(f, m) ==
    IF f.i > 1
    THEN [f EXCEPT !.sent = IF ret[Ctl].ok THEN Append(@, m[f.i - 1]) ELSE @,
                   !.failed = @ \/ ~ret[Ctl].ok]
    ELSE f

\* Lines 318-321 / 326-330: the next command of the macro, or its end
macro_step ==
    /\ Alive(Ctl) /\ Top(Ctl).p \in {"pause", "resume"}
    /\ LET f == Top(Ctl)
           m == IF f.p = "pause" THEN PauseMacro ELSE ResumeMacro
       IN IF f.i <= Len(m)
          THEN /\ stk' = Call(Ctl, [Noted(f, m) EXCEPT !.i = @ + 1],
                              <<SendFrame(m[f.i], FALSE)>>)
               /\ UNCHANGED paused
          ELSE /\ stk' = Popped(Ctl)
               /\ paused' = IF f.p = "resume" THEN FALSE ELSE paused
    /\ UNCHANGED <<link, printing, stop_flag, job, temperature, last_error, ret,
                   cleanup, hist>>
    /\ UNCHANGED env

ctl_stop_print ==
    /\ Invoke("stop")
    /\ stop_print
    /\ touched' = TRUE
    /\ UNCHANGED <<link, job, temperature, last_error, stk, ret>>

\* ------------------------------------------------ _parse_temperature
ParseFrame(l) == [p |-> "parse", at |-> "body", line |-> l]

\* _parse_temperature(line) is called
parse_call(l) ==
    /\ stk[Ctl] = <<>>
    /\ stk' = [stk EXCEPT ![Ctl] = <<ParseFrame(l)>>]
    /\ UNCHANGED <<link, flags, job, temperature, last_error, ret, cleanup, hist>>
    /\ UNCHANGED env

\* Lines 169-193: it runs and returns
parse_run ==
    /\ At(Ctl, "parse", "body")
    /\ temperature' = parse_temperature(Top(Ctl).line, temperature)
    /\ stk' = Popped(Ctl)
    /\ UNCHANGED <<link, flags, job, last_error, ret, cleanup, hist>>
    /\ UNCHANGED env

\* ------------------------------------------------------ specification
Next ==
    \/ \E t \in Threads :
         \/ send_command_check(t) \/ send_command_write(t)
         \/ send_command_await(t) \/ send_command_recovered(t)
         \/ disconnect_stop(t) \/ disconnect_close(t) \/ disconnect_clear(t)
         \/ connect_begin(t) \/ connect_open(t)
    \/ \E m \in Mon : monitor_loop(m)
    \/ \E e \in Exec :
         \/ print_loop_top(e) \/ print_loop_sent(e) \/ print_loop_reconnected(e)
         \/ print_loop_advance(e) \/ print_loop_progress(e)
         \/ print_loop_exit(e) \/ print_loop_exit2(e)
    \/ \E a \in {"none", DevicePort} : ctl_connect(a)
    \/ ctl_disconnect
    \/ \E c \in CtlCmds, w \in BOOLEAN : ctl_send_command(c, w)
    \/ \E j \in Jobs : load_gcode(j) \/ load_gcode_content(j)
    \/ load_gcode_fail \/ load_total \/ load_cur \/ load_prog
    \/ start_print \/ pause_print \/ resume_print \/ macro_step \/ ctl_stop_print
    \/ cleanup_start \/ cleanup_write("m140", "m84") \/ cleanup_write("m84", "end")

Spec == Init /\ [][Next]_vars

\* The parser alone, applied to line after line on a fresh controller.
ParseInit == Init /\ budget = Sending
ParseNext == (\E l \in TempLines : parse_call(l)) \/ parse_run
ParseSpec == ParseInit /\ [][ParseNext]_vars

\* ---------------------------------------------------------------------
\* Claims
\* ---------------------------------------------------------------------
\* the frame of the executor's loop: the bottom of its stack
Loop(e) == stk[e][Len(stk[e])]
\* the executor is inside the while loop of _print_loop
InLoop(e) == Alive(e) /\ Loop(e).at \notin {"exit", "exit2"}
\* the thread has written a command and waits for its acknowledgment
InFlight(t) == At(t, "send", "await")
\* the send_command frames of a thread
SendFrames(t) == {stk[t][i] : i \in {k \in 1..Len(stk[t]) : stk[t][k].p = "send"}}
\* no statement pair that updates two fields together is half done
Loading == Alive(Ctl) /\ Top(Ctl).p = "load"
Observable == ~Loading /\ \A e \in Exec : ~At(e, "loop", "progress")

\* C1: at most one command is in flight on the serial link: no two threads
\* are both between the write of a command and the end of its wait.
C1_OneInFlight == Cardinality({t \in Threads : InFlight(t)}) <= 1

\* C2: at most one print executor is inside its loop at any time.
C2_OneExecutor == Cardinality({e \in Exec : InLoop(e)}) <= 1

\* C3: whenever total_lines > 0, progress = floor(current_line / total_lines
\* * 100) at every point where the state can be observed.
C3_ProgressFormula ==
    (Observable /\ total_lines > 0) => progress = Percent(current_line, total_lines)

\* C4: 0 <= current_line <= total_lines in every state (a load being under
\* way excepted).
C4_CursorInRange == ~Loading => (0 <= current_line /\ current_line <= total_lines)

\* C5: paused implies printing in every state.
C5_PausedImpliesPrinting == paused => printing

\* C6: while a job is printing no step lowers current_line.
C6_CursorMonotone == [][(printing /\ printing') => current_line' >= current_line]_vars

\* C7: fewer than 5 consecutive connection-class failures do not end the
\* job: no executor leaves its loop on the stop flag, with 1 to 4 failed
\* sends counted, when the caller has invoked nothing since it started the job.
C7_FewFailuresKeepJob ==
    \A e \in Exec :
        ~(/\ Alive(e) /\ Loop(e).at = "exit" /\ Loop(e).why = "stop"
          /\ Loop(e).resp = "exception"
          /\ Loop(e).ra \in 1..(max_reconnect_attempts - 1)
          /\ ~touched)

\* C8: one send_command call performs at most one reconnect and writes its
\* command at most twice.
C8_OneRetry == \A t \in Threads : \A f \in SendFrames(t) : f.rc <= 1 /\ f.wr <= 2

\* C9: once a running job on a connected controller has been stopped and the
\* stop has run to its end, the shutdown sequence was attempted exactly once.
C9_ShutdownOnce ==
    (/\ stopped_job /\ CleanupCount = 0
     /\ \A t \in Threads : \A i \in 1..Len(stk[t]) : stk[t][i].p # "disconnect")
    => shut = 1

\* C10: the executor sets progress to 100 on leaving only if its loop ended
\* because current_line reached total_lines.
C10_HundredOnlyIfExhausted ==
    [][\A e \in Exec :
         (At(e, "loop", "exit2") /\ stk'[e] = <<>> /\ ~stop_flag)
         => Top(e).why = "exhausted"]_vars

\* the step in which the caller's start_print runs while a job is printing
StartWhilePrinting ==
    stk[Ctl] = <<>> /\ printing /\ budget'["start"] < budget["start"]

\* C11 (as amended): start_print while a job is printing returns failure,
\* launches no executor and leaves every field unchanged except last_error,
\* which receives the text of the failure ("Already printing" when the
\* controller is connected and a job is loaded).
C11_StartWhilePrintingFrame ==
    [][StartWhilePrinting =>
         /\ ret'[Ctl] = Result(FALSE, "")
         /\ last_error' = (IF ~connected THEN ErrNotConnected
                           ELSE IF gcode_lines = <<>> THEN ErrNoGcode ELSE ErrAlready)
         /\ UNCHANGED <<link, flags, job, temperature, stk>>]_vars

\* C11 as stated: the call also leaves last_error as it was.
C11_StartWhilePrintingUnchanged ==
    [][StartWhilePrinting =>
         /\ ~ret'[Ctl].ok
         /\ UNCHANGED <<link, flags, job, temperature, last_error, stk>>]_vars

\* a start_print refused with "Already printing", the job still running
C11_Refused ==
    /\ printing /\ last_error = ErrAlready /\ ret[Ctl] = Result(FALSE, "")
    /\ \E e \in Exec : InLoop(e)

\* the step in which the caller's load_gcode / load_gcode_content begins
\* while a job is printing
LoadWhilePrinting ==
    stk[Ctl] = <<>> /\ printing /\ budget'["load"] < budget["load"]

\* C12: a load called while a job is printing fails and leaves gcode_lines,
\* total_lines, current_line and progress unchanged.
C12_LoadWhilePrintingFails ==
    [][LoadWhilePrinting => (~ret'[Ctl].ok /\ UNCHANGED job /\ stk' = stk)]_vars

\* C13: a send_command call never goes past its connected check into the
\* write on a disconnected controller other than to return "Not connected":
\* a call that leaves its write step while connected is false returns
\* failure with that message.
C13_NotConnectedAtWrite ==
    [][\A t \in {Ctl} \cup Exec :
         (At(t, "send", "write") /\ ~connected /\ stk'[t] = Tail(stk[t]))
         => ret'[t] = Result(FALSE, "Not connected")]_vars

\* C14: when a connect() call returns failure, connected is false.
C14_FailedConnectDisconnected ==
    [][\A t \in Threads :
         (Alive(t) /\ Top(t).p = "connect" /\ stk'[t] = Tail(stk[t]) /\ ~ret'[t].ok)
         => ~connected']_vars

\* the caller's macro (pause or resume) has made its four sends
MacroEnds(k) == At(Ctl, k, "macro") /\ Top(Ctl).i > Len(PauseMacro)
\* the commands the macro has written, and whether one of its sends failed
MacroSent ==
    Noted(Top(Ctl), IF Top(Ctl).p = "pause" THEN PauseMacro ELSE ResumeMacro).sent
MacroFailed ==
    Noted(Top(Ctl), IF Top(Ctl).p = "pause" THEN PauseMacro ELSE ResumeMacro).failed
\* a send made by the caller's macro k
MacroSend(k) == Len(stk[Ctl]) = 2 /\ stk[Ctl][2].p = k
\* the steps in which pause_print / resume_print are called
PauseBegins == stk[Ctl] = <<>> /\ budget'["pause"] < budget["pause"]
ResumeBegins == stk[Ctl] = <<>> /\ budget'["resume"] < budget["resume"]

C17_SendsTheJob ==
    \A e \in Exec :
        (/\ Alive(e) /\ Loop(e).at = "exit" /\ Loop(e).why = "exhausted"
         /\ Loop(e).clean /\ ~halted /\ ~Loading)
        => (total_lines = Len(gcode_lines) /\ Loop(e).out = Commands(gcode_lines))

\* C18: no M105 of a temperature monitor is in flight while a job is
\* printing and its executor is in its loop.
C18_MonitorIdleWhilePrinting ==
    ~(\E m \in Mon, e \in Exec : InFlight(m) /\ printing /\ InLoop(e))

\* the state a disconnect() leaves
Disconnected == ~connected /\ serial = "none" /\ ~printing /\ ~paused /\ stop_flag
\* a step of a disconnect() call of thread t
DiscStep(t) == Alive(t) /\ Top(t).p = "disconnect" /\ stk'[t] # stk[t]

\* C19: when the caller's disconnect() returns, connected is false, there is
\* no transport handle and printing and paused are false; the steps of a
\* disconnect() made in that state change no field of the controller, and
\* the cleanup thread it starts writes nothing.
C19_DisconnectIdempotent ==
    [][/\ (At(Ctl, "disconnect", "clear") /\ stk'[Ctl] = <<>>) => Disconnected'
       /\ \A t \in Threads :
            (DiscStep(t) /\ Disconnected)
            => UNCHANGED <<link, flags, job, temperature, last_error>>
       /\ (Disconnected /\ cleanup'["start"] < cleanup["start"])
          => (cleanup'["m140"] = cleanup["m140"] /\ shut' = shut)]_vars

\* a second disconnect() under way on a controller that was connected and
\* has been disconnected
C19_SecondDisconnect ==
    At(Ctl, "disconnect", "close") /\ Disconnected /\ port = DevicePort
    /\ budget["disconnect"] = 0 /\ CleanupCount > 0

\* every number of the line is well formed
WellFormed(l) ==
    /\ \A i \in 1..Len(l.T) : IsNumber(l.T[i])
    /\ \A i \in 1..Len(l.B) : IsNumber(l.B[i])
\* the step in which _parse_temperature runs
Parses == At(Ctl, "parse", "body") /\ stk'[Ctl] = <<>>

C21_RetrySameLine ==
    [][\A e \in Exec :
         (/\ At(e, "loop", "reconnected") /\ Top(e).resp = "exception"
          /\ ret[e].ok /\ stk'[e] # stk[e] /\ ~touched)
         => (/\ Head(stk'[e]).at = "top" /\ current_line' = current_line
             /\ printing' /\ ~stop_flag')]_vars

\* C22: a job line whose send ends with a firmware error token or with an
\* acknowledgment timeout is non-fatal whatever last_error holds: the executor
\* goes straight on to advance the cursor, calls no reconnect and leaves its
\* reconnection counter as it was.
NonConnectionFailure(e) ==
    At(e, "loop", "sent") /\ ~ret[e].ok /\ ret[e].msg \in {"response", "Timeout"}

C22_NonFatal ==
    [][\A e \in Exec :
         (NonConnectionFailure(e) /\ stk'[e] # stk[e])
         => (/\ Len(stk'[e]) = 1 /\ Head(stk'[e]).at = "advance"
             /\ Head(stk'[e]).ra = Top(e).ra)]_vars

\* C23: at most one temperature monitor task exists at any time: a monitor
\* of an earlier connection does not live on beside the monitor of the next
\* one, and repeated connects do not accumulate monitors.
Monitors == {m \in Mon : Alive(m)}

C23_OneMonitor == Cardinality(Monitors) <= 1

\* C24: whenever connected is true the transport handle exists and is open,
\* in every reachable state of every interleaving of connect, disconnect,
\* reconnect and send_command.
C24_ConnectedHasOpenPort == connected => serial = "open"

\* C25: a job that start_print started ends complete. Once no executor is
\* left, the caller having invoked nothing since the successful start_print
\* and the device having raised no fault, printing is false, current_line
\* equals total_lines and progress is 100, whatever the firmware answered to
\* each line (acknowledgment, error token or silence until the timeout).
JobStarted == ~touched /\ ret[Ctl].ok
JobOver == \A e \in Exec : ~Alive(e)

C25_JobEndsComplete ==
    (JobStarted /\ JobOver /\ ~faulted)
    => (~printing /\ current_line = total_lines /\ progress = 100)

====
